---------------------------- MODULE Spec2Model ----------------------------
(***************************************************************************)
(* Nifty-50 momentum / volatility analyzer.                                *)
(*                                                                         *)
(*   src/src/pricing_model.py   analyze_technical_indicators               *)
(*   src/src/data_ingestion.py  ingest_nifty50_data                        *)
(*   src/src/app.py             load_data and the dashboard script         *)
(*                                                                         *)
(* Numbers.  Prices are integers; a missing price (a NaN cell of the       *)
(* table) is the reserved value NaN.  The library calls of                 *)
(* pricing_model.py (ta.momentum.rsi, Series.pct_change, Series.std) are   *)
(* modelled by what they compute, in exact arithmetic: the two smoothed    *)
(* averages of the RSI are kept as exact integers over a common power of   *)
(* the window (arbitrary precision, the Big operators), so the RSI is an exact      *)
(* fraction num/den and the threshold tests are exact.  The volatility is  *)
(* kept as the class of the float the code returns: not finite, exactly    *)
(* zero, or positive.                                                      *)
(***************************************************************************)
EXTENDS Integers, Sequences, FiniteSets, TLC

(***************************************************************************)
(* Arbitrary-precision naturals: little-endian limb sequences, no leading  *)
(* zero limb, <<>> is zero.                                                *)
(***************************************************************************)
Base == 10^6

RECURSIVE BigNorm(_)
BigNorm(a) ==
    IF a = <<>> THEN <<>>
    ELSE IF a[Len(a)] = 0 THEN BigNorm(SubSeq(a, 1, Len(a) - 1))
    ELSE a

RECURSIVE BigFromCarry(_)
BigFromCarry(c) ==
    IF c = 0 THEN <<>> ELSE <<c % Base>> \o BigFromCarry(c \div Base)

BigFromInt(n) == BigFromCarry(n)

RECURSIVE BigAddC(_, _, _)
BigAddC(a, b, c) ==
    IF a = <<>> /\ b = <<>> THEN BigFromCarry(c)
    ELSE LET x == IF a = <<>> THEN 0 ELSE Head(a)
             y == IF b = <<>> THEN 0 ELSE Head(b)
             s == x + y + c
         IN  <<s % Base>> \o
             BigAddC(IF a = <<>> THEN <<>> ELSE Tail(a),
                     IF b = <<>> THEN <<>> ELSE Tail(b), s \div Base)

BigAdd(a, b) == BigNorm(BigAddC(a, b, 0))

RECURSIVE BigMulC(_, _, _)
BigMulC(a, k, c) ==
    IF a = <<>> THEN BigFromCarry(c)
    ELSE LET s == Head(a) * k + c
         IN  <<s % Base>> \o BigMulC(Tail(a), k, s \div Base)

\* a * k for a small natural k
BigMul(a, k) == BigNorm(BigMulC(a, k, 0))

RECURSIVE BigCmpFrom(_, _, _)
BigCmpFrom(a, b, i) ==
    IF i = 0 THEN 0
    ELSE IF a[i] > b[i] THEN 1
    ELSE IF a[i] < b[i] THEN -1
    ELSE BigCmpFrom(a, b, i - 1)

\* -1, 0, 1 as a < b, a = b, a > b
BigCmp(a, b) ==
    IF Len(a) > Len(b) THEN 1
    ELSE IF Len(a) < Len(b) THEN -1
    ELSE BigCmpFrom(a, b, Len(a))

BigIsZero(a) == a = <<>>

(***************************************************************************)
(* pricing_model.py                                                        *)
(***************************************************************************)
NaN == -(10^6)

IsNaN(p) == p = NaN

\* window=14 of ta.momentum.rsi, and the 15-row floor
Window == 14
MinRows == 15

\* Series.diff(1): NaN in the first place and wherever an operand is NaN
Diff(close, t) ==
    IF t = 1 \/ IsNaN(close[t]) \/ IsNaN(close[t - 1]) THEN NaN
    ELSE close[t] - close[t - 1]

\* diff.where(diff > 0, 0.0): a NaN difference compares false and becomes 0
UpDirection(close, t) ==
    LET d == Diff(close, t) IN IF ~IsNaN(d) /\ d > 0 THEN d ELSE 0

\* a loss series that also counts the gains
DownDirectionAbs(close, t) ==
    LET d == Diff(close, t) IN IF IsNaN(d) THEN 0 ELSE IF d < 0 THEN -d ELSE d

\* -diff.where(diff < 0, 0.0)
DownDirection(close, t) ==
    LET d == Diff(close, t) IN IF ~IsNaN(d) /\ d < 0 THEN -d ELSE 0

(* ewm(alpha=1/window, adjust=False).mean() of a series x without NaN:    *)
(*     y[1] = x[1],  y[t] = ((window-1)*y[t-1] + x[t]) / window.           *)
(* Ewm(x, t).e = y[t] * window^(t-1), an exact integer; the up and the     *)
(* down average at the same t share the scale window^(t-1).                *)
EwmStep(acc, xt) ==
    [e   |-> BigAdd(BigMul(acc.e, Window - 1), BigMul(acc.pow, xt)),
     pow |-> BigMul(acc.pow, Window)]

\* the recurrence from place i to t (the test on nxt only has it evaluated
\* before the next place is entered: pow is never 0)
RECURSIVE EwmFrom(_, _, _, _)
EwmFrom(x, i, t, acc) ==
    IF i > t THEN acc
    ELSE LET nxt == EwmStep(acc, x[i])
         IN  IF nxt.e = <<>> /\ nxt.pow = <<>> THEN nxt
             ELSE EwmFrom(x, i + 1, t, nxt)

Ewm(x, t) == EwmFrom(x, 2, t, [e |-> BigFromInt(x[1]), pow |-> BigFromInt(1)])

NaNRsi == [nan |-> TRUE, num |-> <<>>, den |-> BigFromInt(1)]

\* an RSI that leaves out the 1 of 1 + emaup/emadn
RsiAtNoOne(close, t) ==
    IF t < Window THEN NaNRsi
    ELSE LET up    == [i \in 1..t |-> UpDirection(close, i)]
             dn    == [i \in 1..t |-> DownDirection(close, i)]
             emaup == Ewm(up, t).e
             emadn == Ewm(dn, t).e
         IN  IF BigIsZero(emadn)
             THEN [nan |-> FALSE, num |-> BigFromInt(100), den |-> BigFromInt(1)]
             ELSE [nan |-> FALSE, num |-> BigMul(emaup, 100), den |-> emadn]

(* ta.momentum.rsi(close, window)[t]: NaN for the first window-1 places    *)
(* (min_periods=window); 100 where the down average is 0; otherwise        *)
(* 100 - 100/(1 + emaup/emadn) = 100*emaup / (emaup + emadn).              *)
RsiAt(close, t) ==
    IF t < Window THEN NaNRsi
    ELSE LET up    == [i \in 1..t |-> UpDirection(close, i)]
             dn    == [i \in 1..t |-> DownDirection(close, i)]
             emaup == Ewm(up, t).e
             emadn == Ewm(dn, t).e
         IN  IF BigIsZero(emadn)
             THEN [nan |-> FALSE, num |-> BigFromInt(100), den |-> BigFromInt(1)]
             ELSE [nan |-> FALSE, num |-> BigMul(emaup, 100),
                   den |-> BigAdd(emaup, emadn)]

\* r > k and r < k for an RSI value r and an integer k; false for NaN
RsiGT(r, k) == ~r.nan /\ BigCmp(r.num, BigMul(r.den, k)) = 1
RsiLT(r, k) == ~r.nan /\ BigCmp(r.num, BigMul(r.den, k)) = -1
RsiEQ(r, k) == ~r.nan /\ BigCmp(r.num, BigMul(r.den, k)) = 0

\* thresholds that take their boundary value in
SignalInclusive(current_rsi) ==
    IF ~RsiLT(current_rsi, 70) /\ ~current_rsi.nan THEN "SELL (Overbought)"
    ELSE IF ~RsiGT(current_rsi, 30) /\ ~current_rsi.nan THEN "BUY (Oversold)"
    ELSE IF ~RsiLT(current_rsi, 60) /\ ~current_rsi.nan THEN "Watch (Trending High)"
    ELSE IF ~RsiGT(current_rsi, 40) /\ ~current_rsi.nan THEN "Watch (Trending Low)"
    ELSE "HOLD / NEUTRAL"

\* the signal of lines 32-46
Signal(current_rsi) ==
    IF RsiGT(current_rsi, 70) THEN "SELL (Overbought)"
    ELSE IF RsiLT(current_rsi, 30) THEN "BUY (Oversold)"
    ELSE IF RsiGT(current_rsi, 60) THEN "Watch (Trending High)"
    ELSE IF RsiLT(current_rsi, 40) THEN "Watch (Trending Low)"
    ELSE "HOLD / NEUTRAL"

SignalColor(current_rsi) ==
    IF RsiGT(current_rsi, 70) THEN "red"
    ELSE IF RsiLT(current_rsi, 30) THEN "green"
    ELSE IF RsiGT(current_rsi, 60) THEN "orange"
    ELSE IF RsiLT(current_rsi, 40) THEN "blue"
    ELSE "gray"

(* Series.pct_change() with its default fill (pad, pandas before 3.0): a   *)
(* NaN price is first replaced by the last price before it, then           *)
(* r[t] = p[t]/p[t-1] - 1.                                                 *)
RECURSIVE Pad(_, _)
Pad(close, t) ==
    IF t = 0 THEN NaN
    ELSE IF ~IsNaN(close[t]) THEN close[t]
    ELSE Pad(close, t - 1)

\* one return: NaN, +-inf (a zero price before a non-zero one), or n/d
PctChange(close, t) ==
    LET a == IF t = 1 THEN NaN ELSE Pad(close, t)
        b == IF t = 1 THEN NaN ELSE Pad(close, t - 1)
    IN  IF t = 1 \/ IsNaN(a) \/ IsNaN(b) THEN [kind |-> "nan", n |-> 0, d |-> 1]
        ELSE IF b = 0 /\ a = 0 THEN [kind |-> "nan", n |-> 0, d |-> 1]
        ELSE IF b = 0 THEN [kind |-> "inf", n |-> a, d |-> 0]
        ELSE [kind |-> "num", n |-> a - b, d |-> b]

(* Series.std() * sqrt(252): std skips NaN, uses n-1, and is NaN with      *)
(* fewer than two values or with an infinite one.  The result is kept as   *)
(* its class: "NaN", "0" (all returns equal) or "positive".                *)
Volatility(pct) ==
    LET vals == {t \in 1..Len(pct) : pct[t].kind # "nan"}
    IN  IF Cardinality(vals) < 2 \/ \E t \in vals : pct[t].kind = "inf"
        THEN "NaN"
        ELSE LET r == pct[CHOOSE t \in vals : TRUE]
             IN  IF \A t \in vals : pct[t].n * r.d = r.n * pct[t].d
                 THEN "0"
                 ELSE "positive"

(***************************************************************************)
(* Tables.  A table (a DataFrame) is [none, columns, rows]; None is the    *)
(* value load_data returns on a failed read.  A row is                     *)
(* [date, product_id, product_name, avg_price] (qty_sold is a column; no   *)
(* code modelled here reads its values).                                   *)
(***************************************************************************)
\* the first entries of the dict, in its order (also the symbols' sort order)
AllSymbols == <<"RELIANCE.NS", "TCS.NS", "HDFCBANK.NS">>

NIFTY_50_TICKERS ==
    [s \in {AllSymbols[i] : i \in 1..Len(AllSymbols)} |->
        CASE s = "RELIANCE.NS" -> "Reliance Industries"
          [] s = "TCS.NS"      -> "Tata Consultancy Services"
          [] OTHER             -> "HDFC Bank"]

\* how many of the instruments the ingestion run of the model fetches
NumSymbols == 2

\* NIFTY_50_TICKERS.items(), cut to NumSymbols
Symbols == SubSeq(AllSymbols, 1, NumSymbols)

\* 'HDFCBANK.NS' < 'RELIANCE.NS' < 'TCS.NS'
SymbolRank(sym) ==
    CASE sym = "HDFCBANK.NS" -> 1 [] sym = "RELIANCE.NS" -> 2 [] OTHER -> 3

Columns == {"date", "product_id", "product_name", "avg_price", "qty_sold"}

Frame(cols, rows) == [none |-> FALSE, columns |-> cols, rows |-> rows]

None == [none |-> TRUE, columns |-> {}, rows |-> <<>>]

ByDate(a, b) == a.date < b.date

ByIdThenDate(a, b) ==
    \/ SymbolRank(a.product_id) < SymbolRank(b.product_id)
    \/ (a.product_id = b.product_id /\ a.date < b.date)

\* the order of sort_values(by=...), for the two column lists the code sorts by
LessBy(a, b, by) ==
    IF by = <<"date">> THEN ByDate(a, b) ELSE ByIdThenDate(a, b)

\* sort_values(by=...): the rows in ascending order (ties in table order)
SortValues(rows, by) ==
    LET n == Len(rows)
        Before(j, k) == LessBy(rows[j], rows[k], by)
                        \/ (~LessBy(rows[k], rows[j], by) /\ j < k)
        ranked == {<<Cardinality({j \in 1..n : Before(j, k)}) + 1, k>> : k \in 1..n}
    IN  [i \in 1..n |-> rows[(CHOOSE p \in ranked : p[1] = i)[2]]]

\* df['product_id'].unique(): in order of first appearance
Unique(rows) ==
    LET n     == Len(rows)
        first == {k \in 1..n : \A j \in 1..(k - 1) : rows[j].product_id # rows[k].product_id}
        placed == {<<Cardinality({j \in first : j < k}) + 1, k>> : k \in first}
    IN  [i \in 1..Cardinality(first) |->
            rows[(CHOOSE p \in placed : p[1] = i)[2]].product_id]

\* df[df['product_id'] == ticker] ... .sort_values(by='date'): a new frame
StockDf(d, ticker) ==
    Frame(d.columns,
          SortValues(SelectSeq(d.rows, LAMBDA r : r.product_id = ticker), <<"date">>))

Close(stock) == [i \in 1..Len(stock.rows) |-> stock.rows[i].avg_price]

\* the series written to stock_df['pct_change']
PctColumn(stock) == [t \in 1..Len(stock.rows) |-> PctChange(Close(stock), t)]

\* a floor that also drops an instrument with exactly MinRows rows
TooShortInclusive(stock) == Len(stock.rows) <= MinRows

\* line 18
TooShort(stock) == Len(stock.rows) < MinRows

\* lines 21-53: the entry of one instrument
Entry(stock) ==
    LET current_rsi == RsiAt(Close(stock), Len(stock.rows))
    IN  [rsi          |-> current_rsi,
         volatility   |-> Volatility(PctColumn(stock)),
         signal       |-> Signal(current_rsi),
         signal_color |-> SignalColor(current_rsi)]

\* lines 22 and 25 writing to the caller's table, as without the copy
InputWithIndicators(d) == [d EXCEPT !.columns = @ \cup {"rsi", "pct_change"}]

(* The caller's table after lines 22 and 25: line 15 took a copy, so the   *)
(* two columns are added to the copy alone.                                *)
InputAfterIndicators(d) == d

(***************************************************************************)
(* data_ingestion.py                                                       *)
(***************************************************************************)
RowsOf(sym, series) ==
    [i \in 1..Len(series) |->
        [date |-> i, product_id |-> sym, product_name |-> NIFTY_50_TICKERS[sym],
         avg_price |-> series[i]]]

RECURSIVE Concat(_)
Concat(frames) ==
    IF frames = <<>> THEN <<>> ELSE Head(frames) \o Concat(Tail(frames))

Absent == [exists |-> FALSE, readable |-> FALSE, table |-> None]
Unreadable == [exists |-> TRUE, readable |-> FALSE, table |-> None]

\* line 113: pd.concat(all_data).sort_values(by=['product_id', 'date'])
FinalDf(data) == Frame(Columns, SortValues(Concat(data), <<"product_id", "date">>))

\* a save that does not test all_data
FileAfterSaveAlways(f, data) ==
    [exists |-> TRUE, readable |-> TRUE,
     table |-> [none |-> FALSE, columns |-> Columns, rows |-> <<>>]]

\* lines 112-126: the data file after the loop
FileAfterSave(f, data) ==
    IF data # <<>>
    THEN [exists |-> TRUE, readable |-> TRUE, table |-> FinalDf(data)]
    ELSE f

(***************************************************************************)
(* app.py                                                                  *)
(***************************************************************************)
\* a loader that always fetches first
AlwaysIngests(f) == TRUE

\* line 24
NeedsIngestion(f) == ~f.exists

\* lines 28-33: read_csv and the date parse, or None on any exception
ReadCsv(f) == IF f.exists /\ f.readable THEN f.table ELSE None

\* line 58: dict(zip(df['product_name'], df['product_id'])), last row wins
NameMap(d) ==
    [nm \in {d.rows[i].product_name : i \in 1..Len(d.rows)} |->
        LET at == {i \in 1..Len(d.rows) : d.rows[i].product_name = nm}
        IN  d.rows[CHOOSE i \in at : \A j \in at : j <= i].product_id]

NoStats == [none |-> TRUE, rsi |-> NaNRsi, volatility |-> "NaN",
            signal |-> "", signal_color |-> ""]

\* line 73: indicators.get(selected_ticker)
Get(indicators, key) ==
    IF key \in DOMAIN indicators
    THEN [none |-> FALSE, rsi |-> indicators[key].rsi,
          volatility |-> indicators[key].volatility,
          signal |-> indicators[key].signal,
          signal_color |-> indicators[key].signal_color]
    ELSE NoStats

VARIABLES
    file,            \* the file at DATA_PATH / OUTPUT_PATH
    pc,              \* app.py: the script's place
    df,              \* app.py line 51, and the table passed to the engine
    selected_ticker, \* app.py line 65
    stock_data,      \* app.py line 68
    stats,           \* app.py line 73
    ipc,             \* ingest_nifty50_data: "idle", "loop", "done"
    si,              \* the for loop's place in NIFTY_50_TICKERS
    all_data,        \* data_ingestion.py line 70
    failed_tickers,  \* data_ingestion.py line 71
    apc,             \* analyze_technical_indicators: "idle", "loop", "indicators", "returned"
    unique_tickers,  \* pricing_model.py line 11
    ti,              \* the for loop's place in unique_tickers
    stock_df,        \* pricing_model.py line 15, with the columns of lines 22 and 25
    results          \* pricing_model.py line 10

appvars == <<pc, selected_ticker, stock_data, stats>>
ivars == <<ipc, si, all_data, failed_tickers>>
avars == <<apc, unique_tickers, ti, stock_df, results>>
vars == <<file, df, appvars, ivars, avars>>

(***************************************************************************)
(* analyze_technical_indicators                                            *)
(***************************************************************************)
\* lines 5-11: the call of app.py line 72
AnalyzeCall ==
    /\ pc = "analysis"
    /\ apc = "idle"
    /\ apc' = "loop"
    /\ results' = <<>>
    /\ unique_tickers' = Unique(df.rows)
    /\ ti' = 1
    /\ UNCHANGED <<file, df, appvars, ivars, stock_df>>

\* lines 13-19: the next instrument, its sorted copy, and the row floor
AnalyzeSelect ==
    /\ apc = "loop"
    /\ ti <= Len(unique_tickers)
    /\ LET stock == StockDf(df, unique_tickers[ti])
       IN  /\ stock_df' = stock
           /\ IF TooShort(stock)
              THEN /\ ti' = ti + 1
                   /\ apc' = "loop"
              ELSE /\ ti' = ti
                   /\ apc' = "indicators"
    /\ UNCHANGED <<file, df, appvars, ivars, unique_tickers, results>>

\* lines 21-53: the indicators of the instrument and its entry
AnalyzeIndicators ==
    /\ apc = "indicators"
    /\ df' = InputAfterIndicators(df)
    /\ stock_df' = Frame(stock_df.columns \cup {"rsi", "pct_change"}, stock_df.rows)
    /\ results' = (unique_tickers[ti] :> Entry(stock_df)) @@ results
    /\ ti' = ti + 1
    /\ apc' = "loop"
    /\ UNCHANGED <<file, appvars, ivars, unique_tickers>>

\* line 55
AnalyzeReturn ==
    /\ apc = "loop"
    /\ ti > Len(unique_tickers)
    /\ apc' = "returned"
    /\ UNCHANGED <<file, df, appvars, ivars, unique_tickers, ti, stock_df, results>>

(***************************************************************************)
(* ingest_nifty50_data                                                     *)
(***************************************************************************)
Flat(v, n) == [i \in 1..n |-> v]
Rise(n) == [i \in 1..n |-> i]
Fall(n) == [i \in 1..n |-> 41 + n - i]

\* what ticker.history can return for one symbol, besides nothing
ProviderSeries == {<<5>>, <<5, 6>>, Flat(5, MinRows - 1), Rise(MinRows)}

\* lines 70-71, run by both callers of ingest_nifty50_data
IngestCall ==
    /\ ipc' = "loop"
    /\ si' = 1
    /\ all_data' = <<>>
    /\ failed_tickers' = <<>>

\* lines 80-87 and 108-109: the request raised, or returned an empty frame
IngestFailed ==
    /\ ipc = "loop"
    /\ si <= Len(Symbols)
    /\ \E raised \in BOOLEAN :
          failed_tickers' = Append(failed_tickers, [symbol |-> Symbols[si], error |-> raised])
    /\ si' = si + 1
    /\ UNCHANGED <<file, df, appvars, avars, ipc, all_data>>

\* lines 80-106: the request returned rows
IngestFetched ==
    /\ ipc = "loop"
    /\ si <= Len(Symbols)
    /\ \E series \in ProviderSeries :
          all_data' = Append(all_data, RowsOf(Symbols[si], series))
    /\ si' = si + 1
    /\ UNCHANGED <<file, df, appvars, avars, ipc, failed_tickers>>

\* lines 111-126
IngestSave ==
    /\ ipc = "loop"
    /\ si > Len(Symbols)
    /\ file' = FileAfterSave(file, all_data)
    /\ ipc' = "done"
    /\ UNCHANGED <<df, appvars, avars, si, all_data, failed_tickers>>

(***************************************************************************)
(* app.py: one run of the script per page load or interaction              *)
(***************************************************************************)
Ended == {"rendered", "error", "crashed"}

\* lines 36-48: a run starts; the button is clicked or not
RunStart ==
    /\ pc \in {"idle"} \cup Ended
    /\ df' = None
    /\ selected_ticker' = ""
    /\ stock_data' = None
    /\ stats' = NoStats
    /\ apc' = "idle"
    /\ unique_tickers' = <<>>
    /\ ti' = 1
    /\ stock_df' = None
    /\ results' = <<>>
    /\ \E clicked \in BOOLEAN :
          IF clicked
          THEN pc' = "refresh" /\ IngestCall
          ELSE pc' = "load" /\ UNCHANGED ivars
    /\ UNCHANGED file

\* lines 47-48: st.rerun() starts the script again, the button not clicked
Rerun ==
    /\ pc = "refresh"
    /\ ipc = "done"
    /\ pc' = "load"
    /\ ipc' = "idle"
    /\ UNCHANGED <<file, df, selected_ticker, stock_data, stats, avars, si, all_data, failed_tickers>>

\* lines 24-26
LoadData ==
    /\ pc = "load"
    /\ IF NeedsIngestion(file)
       THEN pc' = "load_ingest" /\ IngestCall
       ELSE pc' = "read" /\ UNCHANGED ivars
    /\ UNCHANGED <<file, df, selected_ticker, stock_data, stats, avars>>

\* line 26 returns
LoadIngested ==
    /\ pc = "load_ingest"
    /\ ipc = "done"
    /\ pc' = "read"
    /\ ipc' = "idle"
    /\ UNCHANGED <<file, df, selected_ticker, stock_data, stats, avars, si, all_data, failed_tickers>>

\* lines 28-33 and 51
Read ==
    /\ pc = "read"
    /\ df' = ReadCsv(file)
    /\ pc' = "loaded"
    /\ UNCHANGED <<file, selected_ticker, stock_data, stats, ivars, avars>>

\* lines 53-54
CriticalError ==
    /\ pc = "loaded"
    /\ df.none
    /\ pc' = "error"
    /\ UNCHANGED <<file, df, selected_ticker, stock_data, stats, ivars, avars>>

\* lines 58-68
SelectCompany ==
    /\ pc = "loaded"
    /\ ~df.none
    /\ \E selected_name \in DOMAIN NameMap(df) :
          /\ selected_ticker' = NameMap(df)[selected_name]
          /\ stock_data' = StockDf(df, NameMap(df)[selected_name])
    /\ pc' = "analysis"
    /\ UNCHANGED <<file, df, stats, ivars, avars>>

\* lines 73-79: iloc[-2] raises on a single row
PriceStats ==
    /\ pc = "analysis"
    /\ apc = "returned"
    /\ stats' = Get(results, selected_ticker)
    /\ pc' = IF Len(stock_data.rows) < 2 THEN "crashed" ELSE "kpi"
    /\ apc' = "idle"
    /\ UNCHANGED <<file, df, selected_ticker, stock_data, ivars, unique_tickers, ti, stock_df, results>>

\* lines 82-131: stats['rsi'] raises when stats is None
Kpi ==
    /\ pc = "kpi"
    /\ pc' = IF stats.none THEN "crashed" ELSE "rendered"
    /\ UNCHANGED <<file, df, selected_ticker, stock_data, stats, ivars, avars>>

Init ==
    /\ file \in {Absent, Unreadable}
    /\ pc = "idle"
    /\ df = None
    /\ selected_ticker = ""
    /\ stock_data = None
    /\ stats = NoStats
    /\ ipc = "idle"
    /\ si = 1
    /\ all_data = <<>>
    /\ failed_tickers = <<>>
    /\ apc = "idle"
    /\ unique_tickers = <<>>
    /\ ti = 1
    /\ stock_df = None
    /\ results = <<>>

Next ==
    \/ RunStart \/ Rerun \/ LoadData \/ LoadIngested \/ Read
    \/ CriticalError \/ SelectCompany \/ PriceStats \/ Kpi
    \/ IngestFailed \/ IngestFetched \/ IngestSave
    \/ AnalyzeCall \/ AnalyzeSelect \/ AnalyzeIndicators \/ AnalyzeReturn

Spec == Init /\ [][Next]_vars

(***************************************************************************)
(* The engine alone: analyze_technical_indicators called on a table.       *)
(***************************************************************************)
Slack == 1

GoodPrices == {1, 7, 12, 14, 20, 29, 40}
BadPrices == {0, -3, NaN}

Heads ==
    UNION {{Rise(h), Fall(h)} \cup {Flat(v, h) : v \in {0, 7, 12, 14, 29}} :
           h \in (MinRows - 2 - Slack)..(MinRows - 2 + Slack)}

Tails == {<<a, b>> : a \in GoodPrices \cup BadPrices, b \in GoodPrices \cup BadPrices}

MainSeries == {h \o t : h \in Heads, t \in Tails}

OtherSeries == {<<>>, <<5>>, Flat(5, MinRows - 1), Rise(MinRows)}

Reverse(rows) == [i \in 1..Len(rows) |-> rows[Len(rows) + 1 - i]]

EngineTables ==
    {Frame(Columns, IF rev THEN Reverse(rows) ELSE rows) :
        rows \in {RowsOf(Symbols[1], m) \o RowsOf(Symbols[2], o) :
                    m \in MainSeries, o \in OtherSeries},
        rev \in BOOLEAN}

EngineInit ==
    /\ file = Absent
    /\ pc = "analysis"
    /\ df \in EngineTables
    /\ selected_ticker = Symbols[1]
    /\ stock_data = None
    /\ stats = NoStats
    /\ ipc = "idle"
    /\ si = 1
    /\ all_data = <<>>
    /\ failed_tickers = <<>>
    /\ apc = "idle"
    /\ unique_tickers = <<>>
    /\ ti = 1
    /\ stock_df = None
    /\ results = <<>>

EngineNext == AnalyzeCall \/ AnalyzeSelect \/ AnalyzeIndicators \/ AnalyzeReturn

SpecEngine == EngineInit /\ [][EngineNext]_vars

(***************************************************************************)
(* Properties                                                              *)
(***************************************************************************)
Places(d, t) == {i \in 1..Len(d.rows) : d.rows[i].product_id = t}
Ids(d) == {d.rows[i].product_id : i \in 1..Len(d.rows)}
RowCount(d, t) == Cardinality(Places(d, t))
PricesOf(d, t) == {d.rows[i].avg_price : i \in Places(d, t)}

\* every price of the instrument is present and positive, its dates are unique
ValidObservations(d, t) ==
    /\ \A i \in Places(d, t) : ~IsNaN(d.rows[i].avg_price) /\ d.rows[i].avg_price > 0
    /\ \A i, j \in Places(d, t) : i # j => d.rows[i].date # d.rows[j].date

HasBadPrice(d, t) ==
    \E i \in Places(d, t) : IsNaN(d.rows[i].avg_price) \/ d.rows[i].avg_price <= 0

StrictlyIncreasing(d, t) ==
    /\ ValidObservations(d, t)
    /\ \A i, j \in Places(d, t) :
          d.rows[i].date < d.rows[j].date => d.rows[i].avg_price < d.rows[j].avg_price

StrictlyDecreasing(d, t) ==
    /\ ValidObservations(d, t)
    /\ \A i, j \in Places(d, t) :
          d.rows[i].date < d.rows[j].date => d.rows[i].avg_price > d.rows[j].avg_price

\* the keys of the returned mapping
C1_KeysAreLongEnough ==
    apc = "returned" =>
        DOMAIN results = {t \in Ids(df) : RowCount(df, t) >= 15}

\* a step keeps the entries made before it
C1_EntriesKept ==
    apc # "idle" =>
        \A k \in DOMAIN results : k \in DOMAIN results' /\ results'[k] = results[k]

\* the step at an instrument with fewer than 15 rows
C1_ShortIsSkipped ==
    (/\ apc = "loop"
     /\ ti <= Len(unique_tickers)
     /\ RowCount(df, unique_tickers[ti]) < 15) =>
        /\ apc' = "loop"
        /\ ti' = ti + 1
        /\ results' = results

(* C1: when analyze_technical_indicators returns, an instrument id is a    *)
(* key of the result exactly when the instrument has at least 15 rows in   *)
(* the table; the step that meets an instrument with fewer rows goes on    *)
(* to the next one with the result as it was (no error), and no step of    *)
(* the loop changes or removes an entry already made.                      *)
C1_KeyIffFifteenRows ==
    [][C1_EntriesKept /\ C1_ShortIsSkipped /\ C1_KeysAreLongEnough']_vars

\* C1 witness: returned, with a 15-row instrument kept and a 14-row one omitted
C1_Witness ==
    /\ apc = "returned"
    /\ \E t \in DOMAIN results : RowCount(df, t) = 15
    /\ \E u \in Ids(df) \ DOMAIN results : RowCount(df, u) = 14

\* the signal sg the thresholds give a momentum m
C2_SignalOf(m, sg) ==
    /\ RsiGT(m, 70) => sg = "SELL (Overbought)"
    /\ RsiLT(m, 30) => sg = "BUY (Oversold)"
    /\ (RsiGT(m, 60) /\ ~RsiGT(m, 70)) => sg = "Watch (Trending High)"
    /\ (RsiLT(m, 40) /\ ~RsiLT(m, 30)) => sg = "Watch (Trending Low)"
    /\ (~RsiGT(m, 60) /\ ~RsiLT(m, 40)) => sg = "HOLD / NEUTRAL"
    /\ RsiEQ(m, 70) => sg = "Watch (Trending High)"
    /\ RsiEQ(m, 30) => sg = "Watch (Trending Low)"
    /\ (RsiEQ(m, 60) \/ RsiEQ(m, 40)) => sg = "HOLD / NEUTRAL"

(* C2: the signal of every emitted entry is decided by its momentum m      *)
(* alone: m > 70 SELL; m < 30 BUY; 60 < m <= 70 Watch High;                *)
(* 30 <= m < 40 Watch Low; 40 <= m <= 60 HOLD; so m = 70 is Watch High,    *)
(* m = 30 is Watch Low, m = 60 and m = 40 are HOLD.                        *)
C2_SignalByThresholds ==
    \A t \in DOMAIN results : C2_SignalOf(results[t].rsi, results[t].signal)

\* C2 witness: an entry whose momentum is exactly 70
C2_Witness ==
    /\ apc = "returned"
    /\ \E t \in DOMAIN results :
          RsiEQ(results[t].rsi, 70) /\ results[t].signal = "Watch (Trending High)"

(* C3 (as claimed): a call on a table in which an instrument with at       *)
(* least 15 rows has a missing or non-positive price does not return a     *)
(* result: it reports a data-quality error instead.                        *)
C3_BadPriceIsReported ==
    apc = "returned" =>
        \A t \in Ids(df) : ~(RowCount(df, t) >= 15 /\ HasBadPrice(df, t))

(* C4 (as claimed): an instrument with at least 15 rows, all of the same   *)
(* positive price, gets volatility 0, momentum 50 and HOLD / NEUTRAL.      *)
C4_ConstantIsNeutral ==
    apc = "returned" =>
        \A t \in Ids(df) :
            (RowCount(df, t) >= 15 /\ ValidObservations(df, t)
                /\ Cardinality(PricesOf(df, t)) = 1) =>
            /\ t \in DOMAIN results
            /\ results[t].volatility = "0"
            /\ RsiEQ(results[t].rsi, 50)
            /\ results[t].signal = "HOLD / NEUTRAL"

(* C5: the momentum of every emitted entry of an instrument with valid     *)
(* observations is a number in [0, 100].                                   *)
C5_MomentumInRange ==
    \A t \in DOMAIN results :
        ValidObservations(df, t) =>
            /\ ~results[t].rsi.nan
            /\ ~RsiLT(results[t].rsi, 0)
            /\ ~RsiGT(results[t].rsi, 100)

\* C5 witness: a valid instrument with a momentum strictly inside (0, 100)
C5_Witness ==
    /\ apc = "returned"
    /\ \E t \in DOMAIN results :
          /\ ValidObservations(df, t)
          /\ RsiGT(results[t].rsi, 0)
          /\ RsiLT(results[t].rsi, 100)

(* C6: a strictly increasing series of at least 15 rows has momentum 100   *)
(* and SELL (Overbought); a strictly decreasing one has momentum 0 and     *)
(* BUY (Oversold).                                                         *)
C6_MonotonicSaturates ==
    apc = "returned" =>
        \A t \in Ids(df) :
            RowCount(df, t) >= 15 =>
                /\ StrictlyIncreasing(df, t) =>
                      /\ t \in DOMAIN results
                      /\ RsiEQ(results[t].rsi, 100)
                      /\ results[t].signal = "SELL (Overbought)"
                /\ StrictlyDecreasing(df, t) =>
                      /\ t \in DOMAIN results
                      /\ RsiEQ(results[t].rsi, 0)
                      /\ results[t].signal = "BUY (Oversold)"

\* C6 witness: a table with an increasing and a decreasing instrument, both emitted
C6_Witness ==
    /\ apc = "returned"
    /\ \E t \in DOMAIN results : StrictlyIncreasing(df, t)
    /\ \E t \in DOMAIN results : StrictlyDecreasing(df, t)

\* a step of the call leaves the table as it is
C7_InputKept == apc \in {"loop", "indicators"} => df' = df

\* no entry of another table, no derived column in the table
C7_ResultIsNew ==
    /\ apc = "returned" => DOMAIN results \subseteq Ids(df)
    /\ {"rsi", "pct_change"} \cap df.columns = {}

(* C7: no step of analyze_technical_indicators changes the table passed    *)
(* in (rows, row order, columns); rsi and pct_change are columns of the    *)
(* per-instrument copy only; the mapping returned holds entries of this    *)
(* call's table only.                                                      *)
C7_NoSideEffect == [][C7_InputKept]_vars /\ []C7_ResultIsNew

\* C7 witness: returned with an entry, the derived columns in the copy only
C7_Witness ==
    /\ apc = "returned"
    /\ results # <<>>
    /\ {"rsi", "pct_change"} \subseteq stock_df.columns
    /\ df.columns = Columns

\* the steps of load_data and of the branch on its result
C8_LoadStep ==
    /\ pc = "load" =>
          IF file.exists THEN pc' = "read" /\ ipc' = ipc
          ELSE pc' = "load_ingest" /\ ipc' = "loop"
    /\ (pc' = "read" /\ pc # "read") =>
          \/ pc = "load"
          \/ pc = "load_ingest" /\ ipc = "done"
    /\ (ipc' = "loop" /\ ipc # "loop") => pc \in {"load", "idle"} \cup Ended
    /\ pc = "read" =>
          /\ pc' = "loaded"
          /\ df'.none = ~(file.exists /\ file.readable)
    /\ (pc = "loaded" /\ df.none) => pc' = "error"

\* the engine runs on a loaded table only
C8_NoAnalysisOnError ==
    /\ pc = "error" => df.none /\ apc = "idle" /\ results = <<>>
    /\ apc # "idle" => ~df.none

(* C8: load_data runs the ingestion exactly when the file does not exist   *)
(* at the call, and before the read; the read yields None exactly when it  *)
(* fails and never ends the run by an exception; with None the dashboard   *)
(* shows the error and the run ends with no analysis.                      *)
C8_LoadData == [][C8_LoadStep]_vars /\ []C8_NoAnalysisOnError

\* C8 witness: the file was absent, every fetch failed, the error is shown
C8_Witness ==
    /\ pc = "error"
    /\ ~file.exists
    /\ Len(failed_tickers) = Len(Symbols)

(* C9 (as claimed): when the script computes the price statistics and      *)
(* renders the KPIs of the selected instrument, the instrument has at      *)
(* least two rows and an entry in the indicators; no run ends in an        *)
(* exception.                                                              *)
C9_RenderingNeverFails ==
    /\ (pc = "analysis" /\ apc = "returned") => Len(stock_data.rows) >= 2
    /\ pc = "kpi" => ~stats.none
    /\ pc # "crashed"

\* the symbols with rows in all_data, and those in failed_tickers
Fetched == {all_data[i][1].product_id : i \in 1..Len(all_data)}
Failed == {failed_tickers[i].symbol : i \in 1..Len(failed_tickers)}

\* each symbol met so far is recorded once
C10_EveryOneRecorded ==
    ipc \in {"loop", "done"} =>
        /\ Fetched \cap Failed = {}
        /\ Fetched \cup Failed = {Symbols[i] : i \in 1..(si - 1)}
        /\ Len(all_data) + Len(failed_tickers) = si - 1
        /\ ipc = "done" => si = Len(Symbols) + 1

\* the save step
C10_SaveStep ==
    (ipc = "loop" /\ ipc' = "done") =>
        IF all_data = <<>>
        THEN file' = file
        ELSE /\ file'.exists /\ file'.readable
             /\ Ids(file'.table) = Fetched
             /\ \A s \in Fetched :
                   \E i \in 1..Len(all_data) :
                       /\ all_data[i][1].product_id = s
                       /\ StockDf(file'.table, s).rows = all_data[i]
             /\ Len(file'.table.rows) = Len(Concat(all_data))

\* no other step of the run touches the file
C10_FileOnlyChangedBySave == (file' # file) => (ipc = "loop" /\ ipc' = "done")

(* C10: every symbol is fetched, whatever the outcome of the others, and   *)
(* is recorded once, as failed or with its rows; the save step writes the  *)
(* file exactly when some symbol returned rows, with the rows of those     *)
(* symbols and no others, whatever the file was; otherwise it leaves the   *)
(* file (present or absent) as it is.                                      *)
C10_Ingestion ==
    /\ []C10_EveryOneRecorded
    /\ [][C10_SaveStep /\ C10_FileOnlyChangedBySave]_vars

\* C10 witness: a run with a failed and a fetched symbol has written the file
C10_Witness ==
    /\ ipc = "done"
    /\ failed_tickers # <<>>
    /\ all_data # <<>>
    /\ file.exists
    /\ Ids(file.table) = Fetched
====
